---- MODULE Spec2Model ----
(***************************************************************************)
(* Model of src/cpu.py: the condition-flag register (class Flags) and the  *)
(* register file (class Registers) of an 8080 emulator.                    *)
(*                                                                         *)
(* Every method is an operator computed as the Python code computes it, on *)
(* Python's unbounded two's-complement integers, and an action that calls  *)
(* it on inputs drawn from small sets and records the call, its arguments, *)
(* its outcome (a return or the exception raised) and the state before it. *)
(* Keys are drawn from the integers, so the "type(key) != int" tests of    *)
(* the indexed accessors are false on every input of this model.           *)
(***************************************************************************)
EXTENDS Integers, Sequences, FiniteSets, TLC

VARIABLES
    flags,       \* Flags.flags, the flag word
    registers,   \* Registers._registers, a dict: register code -> value
    call,        \* name of the last method called ("init" after construction)
    args,        \* its arguments, a tuple
    outcome,     \* "return", or the name of the exception it raised
    val,         \* <<v>> when it returned v, <<>> when it returned None or raised
    flags0,      \* the flag word before the last call
    registers0,  \* the register dict before the last call
    ncalls       \* number of calls made on the register file so far

vars == <<flags, registers, call, args, outcome, val, flags0, registers0, ncalls>>

----------------------------------------------------------------------------
(* Bounds of the model.                                                    *)

\* set/clear/indexed flag accesses are tried on the bits -1..MaxBit
MaxBit == 8
\* indexed flag writes are tried with the values -1..MaxFlagValue
MaxFlagValue == 2
\* indexed register accesses and pair codes are tried on the codes -1..MaxCode
MaxCode == 8
\* pair selectors are tried on -MaxSelector-1..MaxSelector
MaxSelector == 3
\* at most MaxCalls calls are made on the register file in one run
MaxCalls == 3

----------------------------------------------------------------------------
(* Python's integer operators on unbounded two's-complement integers.      *)
(* \div is floor division and % the non-negative remainder, as Python's    *)
(* >> and & are on negative numbers.                                       *)

RECURSIVE BitAnd(_, _)
BitAnd(a, b) ==
    IF a = 0 \/ b = 0 THEN 0
    ELSE IF a = -1 THEN b
    ELSE IF b = -1 THEN a
    ELSE (a % 2) * (b % 2) + 2 * BitAnd(a \div 2, b \div 2)

RECURSIVE BitOr(_, _)
BitOr(a, b) ==
    IF a = 0 THEN b
    ELSE IF b = 0 THEN a
    ELSE IF a = -1 \/ b = -1 THEN -1
    ELSE (IF a % 2 = 1 \/ b % 2 = 1 THEN 1 ELSE 0) + 2 * BitOr(a \div 2, b \div 2)

BitNot(a) == -a - 1

ShiftL(a, n) == a * 2^n

ShiftR(a, n) == a \div 2^n

\* The result of a call: the object's state after it, how it ended, what it returned.
Return(s, v) == [state |-> s, outcome |-> "return", val |-> v]

Raise(s, e) == [state |-> s, outcome |-> e, val |-> <<>>]

None == <<>>

----------------------------------------------------------------------------
(* class Flags                                                             *)

CARRY == 0
PARITY == 2
AUX_CARRY == 3
ZERO == 6
SIGN == 7

\* Flags.__init__: self.flags = 2
Flags_init == 2

\* Flags.__init__: self._valid_bits, a tuple
_valid_bits == <<CARRY, PARITY, AUX_CARRY, ZERO, SIGN>>

\* "x in self._valid_bits"
InValidBits(bit) == \E i \in 1..Len(_valid_bits) : _valid_bits[i] = bit

\* mutant of _set_flag: the bit is added, not or-ed
_set_flag_add(f, bit) == f + 2^bit

_set_flag(f, bit) == BitOr(f, 2^bit)

\* mutant of _clear_flag: the complement taken before the power, (~2) ** bit
_clear_flag_precedence(f, bit) == BitAnd(f, BitNot(2)^bit)

\* "~ 2 ** bit" is ~(2 ** bit): ** binds tighter than a unary operator on its left
_clear_flag(f, bit) == BitAnd(f, BitNot(2^bit))

set(f, bit) ==
    IF ~InValidBits(bit) THEN Raise(f, "InvalidFlagException")
    ELSE Return(_set_flag(f, bit), None)

clear(f, bit) ==
    IF ~InValidBits(bit) THEN Raise(f, "InvalidFlagException")
    ELSE Return(_clear_flag(f, bit), None)

Flags_getitem(f, key) ==
    IF ~InValidBits(key) THEN Raise(f, "IndexError")
    ELSE Return(f, <<ShiftR(BitAnd(f, 2^key), key)>>)

\* mutant of Flags_setitem: every value other than 0 sets the flag
Flags_setitem_truthy(f, key, value) ==
    IF ~InValidBits(key) THEN Raise(f, "IndexError")
    ELSE IF value = 0 THEN Return(_clear_flag(f, key), None)
    ELSE Return(_set_flag(f, key), None)

Flags_setitem(f, key, value) ==
    IF ~InValidBits(key) THEN Raise(f, "IndexError")
    ELSE IF value = 0 THEN Return(_clear_flag(f, key), None)
    ELSE IF value = 1 THEN Return(_set_flag(f, key), None)
    ELSE Raise(f, "ValueError")

\* the loop of clear_all over the first n entries of _valid_bits
RECURSIVE clear_all_loop(_, _)
clear_all_loop(f, n) ==
    IF n = 0 THEN f ELSE _clear_flag(clear_all_loop(f, n - 1), _valid_bits[n])

clear_all(f) == Return(clear_all_loop(f, Len(_valid_bits)), None)

\* the loop of calculate_parity: n iterations left, returns the final count
RECURSIVE parity_count(_, _)
parity_count(data, n) ==
    IF n = 0 THEN 0
    ELSE (IF BitAnd(data, 1) = 1 THEN 1 ELSE 0) + parity_count(ShiftR(data, 1), n - 1)

\* mutant of calculate_parity: the loop stops one bit short, range(7)
calculate_parity_seven_bits(f, data) ==
    LET count == parity_count(data, 7)
        r == IF count % 2 = 0 THEN set(f, PARITY) ELSE clear(f, PARITY)
    IN  [r EXCEPT !.val = None]

calculate_parity(f, data) ==
    LET count == parity_count(data, 8)
        r == IF count % 2 = 0 THEN set(f, PARITY) ELSE clear(f, PARITY)
    IN  [r EXCEPT !.val = None]

set_zero(f, data) ==
    LET r == IF data = 0 THEN set(f, ZERO) ELSE clear(f, ZERO)
    IN  [r EXCEPT !.val = None]

\* utils.is_negative: true iff bit 7 of the byte is set
is_negative(v) == BitAnd(v, 128) # 0

set_sign(f, v) ==
    LET c == clear(f, SIGN)
    IN  IF c.outcome # "return" THEN c
        ELSE IF is_negative(v) THEN set(c.state, SIGN)
        ELSE c

----------------------------------------------------------------------------
(* class Registers                                                         *)

B == 0
C == 1
D == 2
E == 3
H == 4
L == 5
M == 6
A == 7

\* the namedtuple RegisterPair(hi, lo)
RegisterPair(hi, lo) == [hi |-> hi, lo |-> lo]

\* Registers.__init__: self._registers, a dict with no key M
Registers_init == [r \in {B, C, D, E, H, L, A} |-> 0]

\* Registers.__init__: self._pairs, a dict keyed by the pair's first register
_pairs ==
    (H :> RegisterPair(H, L)) @@ (B :> RegisterPair(B, C)) @@ (D :> RegisterPair(D, E))

\* Registers.__init__: self._rp, a list
_rp == <<RegisterPair(B, C), RegisterPair(D, E), RegisterPair(H, L)>>

\* the dict assignment d[k] = v: the key is added when the dict has none
DictSet(d, k, v) == [x \in (DOMAIN d) \cup {k} |-> IF x = k THEN v ELSE d[x]]

Registers_getitem(regs, reg) ==
    IF reg \notin DOMAIN regs THEN Raise(regs, "IndexError")
    ELSE Return(regs, <<regs[reg]>>)

Registers_setitem(regs, reg, v) ==
    IF reg \notin DOMAIN regs THEN Raise(regs, "IndexError")
    ELSE Return(DictSet(regs, reg, v), None)

\* mutant of get_address_from_pair: the second register taken as the high byte
get_address_from_pair_swapped(regs, register) ==
    IF register \notin DOMAIN _pairs THEN Raise(regs, "InvalidPairException")
    ELSE LET pair == _pairs[register]
             hi == regs[pair.lo]
             lo == regs[pair.hi]
         IN  Return(regs, <<BitOr(ShiftL(hi, 8), lo)>>)

get_address_from_pair(regs, register) ==
    IF register \notin DOMAIN _pairs THEN Raise(regs, "InvalidPairException")
    ELSE LET pair == _pairs[register]
             hi == regs[pair.hi]
             lo == regs[pair.lo]
         IN  Return(regs, <<BitOr(ShiftL(hi, 8), lo)>>)

\* self._registers[k] of a key the dict does not hold raises KeyError
get_value_from_pair(regs, pair) ==
    IF pair.hi \notin DOMAIN regs \/ pair.lo \notin DOMAIN regs THEN Raise(regs, "KeyError")
    ELSE LET hi == regs[pair.hi]
             lo == regs[pair.lo]
         IN  Return(regs, <<BitOr(ShiftL(hi, 8), lo)>>)

\* mutant of set_value_pair: the high byte stored without its mask
set_value_pair_unmasked(regs, pair, v) ==
    LET r1 == DictSet(regs, pair.hi, ShiftR(v, 8))
    IN  Return(DictSet(r1, pair.lo, BitAnd(v, 255)), None)

set_value_pair(regs, pair, v) ==
    LET r1 == DictSet(regs, pair.hi, BitAnd(ShiftR(v, 8), 255))
    IN  Return(DictSet(r1, pair.lo, BitAnd(v, 255)), None)

\* mutant of get_register_from_opcode: a two-bit mask
get_register_from_opcode_mask3(opcode, bit_offset) ==
    ShiftR(BitAnd(opcode, ShiftL(3, bit_offset)), bit_offset)

get_register_from_opcode(opcode, bit_offset) ==
    ShiftR(BitAnd(opcode, ShiftL(7, bit_offset)), bit_offset)

\* mutant of get_pairs: the selector taken as one-based, self._rp[pair_encoding - 1]
get_pairs_one_based(regs, pair_encoding) ==
    LET i == pair_encoding - 1
    IN  IF i >= 0 /\ i < Len(_rp) THEN Return(regs, <<_rp[i + 1]>>)
        ELSE IF i < 0 /\ i >= -Len(_rp) THEN Return(regs, <<_rp[Len(_rp) + i + 1]>>)
        ELSE Raise(regs, "IndexError")

\* self._rp[pair_encoding]: a list index, negative ones counting from the end
get_pairs(regs, pair_encoding) ==
    IF pair_encoding >= 0 /\ pair_encoding < Len(_rp)
        THEN Return(regs, <<_rp[pair_encoding + 1]>>)
    ELSE IF pair_encoding < 0 /\ pair_encoding >= -Len(_rp)
        THEN Return(regs, <<_rp[Len(_rp) + pair_encoding + 1]>>)
    ELSE Raise(regs, "IndexError")

----------------------------------------------------------------------------
(* Inputs of the register operations.                                      *)

CodeInputs == -1..MaxCode
\* values written to a register by index: a byte, one past a byte, a negative
RegValueInputs == {32, 256, -1}
\* 16-bit values written to a pair: in range, negative, wider than 16 bits
PairValueInputs == {4660, -1, 74565}
\* the three pairs of the processor, and two descriptors that name code M
PairInputs ==
    {RegisterPair(B, C), RegisterPair(D, E), RegisterPair(H, L),
     RegisterPair(M, L), RegisterPair(A, M)}
SelectorInputs == (-MaxSelector - 1)..MaxSelector
Opcode == 0..255
BitOffset == 0..7

----------------------------------------------------------------------------
(* Inputs of the flag operations.                                          *)

BitInputs == -1..MaxBit
FlagValueInputs == -1..MaxFlagValue
Byte == 0..255
ZeroInputs == {0, 1, 5, 255}
SignInputs == {0, 1, 127, 128, 255}

----------------------------------------------------------------------------
(* State after construction of one Flags and one Registers.                *)

Init ==
    /\ flags = Flags_init
    /\ flags0 = Flags_init
    /\ registers = Registers_init
    /\ registers0 = Registers_init
    /\ call = "init"
    /\ args = <<>>
    /\ outcome = "return"
    /\ val = None
    /\ ncalls = 0

\* A call on the Flags object: r is the result the method's operator computed.
FlagsCall(name, a, r) ==
    /\ flags' = r.state
    /\ flags0' = flags
    /\ call' = name
    /\ args' = a
    /\ outcome' = r.outcome
    /\ val' = r.val
    /\ UNCHANGED <<registers, registers0, ncalls>>

FlagsSet == \E bit \in BitInputs : FlagsCall("set", <<bit>>, set(flags, bit))

FlagsClear == \E bit \in BitInputs : FlagsCall("clear", <<bit>>, clear(flags, bit))

FlagsGetItem ==
    \E key \in BitInputs : FlagsCall("Flags_getitem", <<key>>, Flags_getitem(flags, key))

FlagsSetItem ==
    \E key \in BitInputs, value \in FlagValueInputs :
        FlagsCall("Flags_setitem", <<key, value>>, Flags_setitem(flags, key, value))

FlagsClearAll == FlagsCall("clear_all", <<>>, clear_all(flags))

FlagsCalculateParity ==
    \E data \in Byte : FlagsCall("calculate_parity", <<data>>, calculate_parity(flags, data))

FlagsSetZero == \E data \in ZeroInputs : FlagsCall("set_zero", <<data>>, set_zero(flags, data))

FlagsSetSign == \E v \in SignInputs : FlagsCall("set_sign", <<v>>, set_sign(flags, v))

NextFlags ==
    \/ FlagsSet
    \/ FlagsClear
    \/ FlagsGetItem
    \/ FlagsSetItem
    \/ FlagsClearAll
    \/ FlagsCalculateParity
    \/ FlagsSetZero
    \/ FlagsSetSign

SpecFlags == Init /\ [][NextFlags]_vars

\* A call on the Registers object: r is the result the method's operator computed.
RegistersCall(name, a, r) ==
    /\ ncalls < MaxCalls
    /\ ncalls' = ncalls + 1
    /\ registers' = r.state
    /\ registers0' = registers
    /\ call' = name
    /\ args' = a
    /\ outcome' = r.outcome
    /\ val' = r.val
    /\ UNCHANGED <<flags, flags0>>

RegistersGetItem ==
    \E reg \in CodeInputs :
        RegistersCall("Registers_getitem", <<reg>>, Registers_getitem(registers, reg))

RegistersSetItem ==
    \E reg \in CodeInputs, v \in RegValueInputs :
        RegistersCall("Registers_setitem", <<reg, v>>, Registers_setitem(registers, reg, v))

GetAddressFromPair ==
    \E register \in CodeInputs :
        RegistersCall("get_address_from_pair", <<register>>,
                      get_address_from_pair(registers, register))

GetValueFromPair ==
    \E pair \in PairInputs :
        RegistersCall("get_value_from_pair", <<pair.hi, pair.lo>>,
                      get_value_from_pair(registers, pair))

SetValuePair ==
    \E pair \in PairInputs, v \in PairValueInputs :
        RegistersCall("set_value_pair", <<pair.hi, pair.lo, v>>,
                      set_value_pair(registers, pair, v))

GetPairs ==
    \E pair_encoding \in SelectorInputs :
        RegistersCall("get_pairs", <<pair_encoding>>, get_pairs(registers, pair_encoding))

NextRegisters ==
    \/ RegistersGetItem
    \/ RegistersSetItem
    \/ GetAddressFromPair
    \/ GetValueFromPair
    \/ SetValuePair
    \/ GetPairs

SpecRegisters == Init /\ [][NextRegisters]_vars

\* The static method get_register_from_opcode, applied to every opcode and offset.
GetRegisterFromOpcode ==
    \E opcode \in Opcode, bit_offset \in BitOffset :
        /\ call' = "get_register_from_opcode"
        /\ args' = <<opcode, bit_offset>>
        /\ outcome' = "return"
        /\ val' = <<get_register_from_opcode(opcode, bit_offset)>>
        /\ flags0' = flags
        /\ registers0' = registers
        /\ UNCHANGED <<flags, registers, ncalls>>

NextOpcode == GetRegisterFromOpcode

SpecOpcode == Init /\ [][NextOpcode]_vars

----------------------------------------------------------------------------
(* The whole program. The two objects share no state and no method of one  *)
(* reads the other, so a run that calls both reaches, for each object,     *)
(* the states the object reaches alone: Spec explores the runs that keep   *)
(* to one object.                                                          *)

FlagsCalls ==
    {"set", "clear", "Flags_getitem", "Flags_setitem", "clear_all",
     "calculate_parity", "set_zero", "set_sign"}

RegistersCalls ==
    {"Registers_getitem", "Registers_setitem", "get_address_from_pair",
     "get_value_from_pair", "set_value_pair", "get_pairs"}

Next ==
    \/ call \in FlagsCalls \cup {"init"} /\ NextFlags
    \/ call \in RegistersCalls \cup {"init"} /\ NextRegisters
    \/ call \in {"get_register_from_opcode", "init"} /\ NextOpcode

Spec == Init /\ [][Next]_vars

----------------------------------------------------------------------------
(* Properties.                                                             *)

\* bit i of the two's-complement integer w
Bit(w, i) == (w \div 2^i) % 2

\* w with bit i taken out: equal for two words iff they agree on every other bit
OtherBits(w, i) == w - Bit(w, i) * 2^i

Addressable == {0, 2, 3, 6, 7}

Backed == {0, 1, 2, 3, 4, 5, 7}

\* number of 1-bits among the low eight bits of data
OneBits(data) == Cardinality({i \in 0..7 : Bit(data, i) = 1})

\* C1: after any sequence of calls on the flag register, failing calls included,
\* bit 1 of the flag word is 1, the reserved bits 4 and 5 are 0, and the word is
\* in 0..255.
C1_FlagWordInvariant ==
    /\ flags \in 0..255
    /\ Bit(flags, 1) = 1
    /\ Bit(flags, 4) = 0
    /\ Bit(flags, 5) = 0

\* C1 witness: all five flags were set, then set(1) failed and left the word alone.
C1_Witness ==
    /\ call = "set"
    /\ args = <<1>>
    /\ outcome = "InvalidFlagException"
    /\ flags = 207

\* C3: for each addressable bit b, set(b) and the indexed write of 1 succeed and
\* make get(b) return 1, clear(b) and the indexed write of 0 succeed and make
\* get(b) return 0, and every other bit of the flag word is as before the call.
C3_SetClearEffect ==
    LET b == args[1]
        sets == call = "set" \/ (call = "Flags_setitem" /\ args[2] = 1)
        clears == call = "clear" \/ (call = "Flags_setitem" /\ args[2] = 0)
    IN  /\ (sets /\ b \in Addressable) =>
            /\ outcome = "return"
            /\ Flags_getitem(flags, b) = Return(flags, <<1>>)
            /\ Bit(flags, b) = 1
            /\ OtherBits(flags, b) = OtherBits(flags0, b)
        /\ (clears /\ b \in Addressable) =>
            /\ outcome = "return"
            /\ Flags_getitem(flags, b) = Return(flags, <<0>>)
            /\ Bit(flags, b) = 0
            /\ OtherBits(flags, b) = OtherBits(flags0, b)

\* C3 witness: set(AUX_CARRY) on a word that has CARRY and SIGN set adds bit 3 only.
C3_Witness ==
    /\ call = "set"
    /\ args = <<3>>
    /\ outcome = "return"
    /\ flags0 = 131
    /\ flags = 139

\* C4: on a bit outside {0,2,3,6,7} set and clear raise InvalidFlagException and
\* the indexed read and write raise IndexError; the indexed write of a value other
\* than 0 and 1 to an addressable bit raises ValueError; a call that raises leaves
\* the flag word unchanged.
C4_FlagErrors ==
    /\ (call \in {"set", "clear"} /\ args[1] \notin Addressable) =>
            outcome = "InvalidFlagException"
    /\ (call \in {"Flags_getitem", "Flags_setitem"} /\ args[1] \notin Addressable) =>
            outcome = "IndexError"
    /\ (call = "Flags_setitem" /\ args[1] \in Addressable /\ args[2] \notin {0, 1}) =>
            outcome = "ValueError"
    /\ (call \in {"set", "clear", "Flags_getitem", "Flags_setitem"} /\ outcome # "return") =>
            flags = flags0

\* C4 witness: the indexed write of 2 to CARRY raised ValueError on a word with flags set.
C4_Witness ==
    /\ call = "Flags_setitem"
    /\ args = <<0, 2>>
    /\ outcome = "ValueError"
    /\ flags = 207
    /\ flags0 = 207

\* C7: after calculate_parity(byte), PARITY is 1 iff the byte has an even number
\* of 1-bits, and every other bit of the flag word is as before the call.
C7_Parity ==
    call = "calculate_parity" =>
        /\ outcome = "return"
        /\ Bit(flags, 2) = (IF OneBits(args[1]) % 2 = 0 THEN 1 ELSE 0)
        /\ OtherBits(flags, 2) = OtherBits(flags0, 2)

\* C7 witness: calculate_parity(1) cleared a PARITY that was set, other flags kept.
C7_Witness ==
    /\ call = "calculate_parity"
    /\ args = <<1>>
    /\ flags0 = 207
    /\ flags = 203

\* C2: every scalar register holds a value in 0..255 and every pair BC, DE, HL
\* composes to a value in 0..65535.
C2_RegisterRange ==
    /\ \A r \in Backed : registers[r] \in 0..255
    /\ \A p \in {<<0, 1>>, <<2, 3>>, <<4, 5>>} :
            BitOr(ShiftL(registers[p[1]], 8), registers[p[2]]) \in 0..65535

\* C5: set_value_pair(p, v) on one of the pairs BC, DE, HL leaves p.hi at
\* (v >> 8) & 0xFF and p.lo at v & 0xFF, get_value_from_pair(p) then returns
\* v mod 65536, and every register outside the pair is as before the call.
C5_PairRoundTrip ==
    (call = "set_value_pair" /\ <<args[1], args[2]>> \in {<<0, 1>>, <<2, 3>>, <<4, 5>>}) =>
        LET hi == args[1]
            lo == args[2]
            v == args[3]
        IN  /\ outcome = "return"
            /\ registers[hi] = (v \div 256) % 256
            /\ registers[lo] = v % 256
            /\ get_value_from_pair(registers, RegisterPair(hi, lo))
                    = Return(registers, <<v % 65536>>)
            /\ DOMAIN registers = DOMAIN registers0
            /\ \A r \in (DOMAIN registers) \ {hi, lo} : registers[r] = registers0[r]

\* C5 witness: a value wider than 16 bits was written to HL after another register
\* had been given a value.
C5_Witness ==
    /\ call = "set_value_pair"
    /\ args = <<4, 5, 74565>>
    /\ registers[4] = 35
    /\ registers[5] = 69
    /\ registers[7] = 256

\* C6: get_address_from_pair(code) returns (hi << 8) | lo of BC, DE, HL for the
\* code B, D, H, raises InvalidPairException for every other code, and changes no
\* register.
C6_AddressFromPair ==
    call = "get_address_from_pair" =>
        LET code == args[1]
        IN  /\ registers = registers0
            /\ code \in {0, 2, 4} =>
                /\ outcome = "return"
                /\ val = <<BitOr(registers[code] * 256, registers[code + 1])>>
                /\ (registers[code] \in 0..255 /\ registers[code + 1] \in 0..255) =>
                        val = <<registers[code] * 256 + registers[code + 1]>>
            /\ code \notin {0, 2, 4} =>
                /\ outcome = "InvalidPairException"
                /\ val = <<>>

\* C6 witness: with H = 0x20 and L = 0x34 the address of pair H is 0x2034.
C6_Witness ==
    /\ call = "get_address_from_pair"
    /\ args = <<4>>
    /\ registers[4] = 32
    /\ registers[5] = 52
    /\ val = <<8244>>

\* C9: code M never has backing storage: the register dict holds exactly the
\* codes B,C,D,E,H,L,A, and the indexed read and write of code 6 raise IndexError.
C9_NoStorageForM ==
    /\ DOMAIN registers = Backed
    /\ (call \in {"Registers_getitem", "Registers_setitem"} /\ args[1] = 6) =>
            outcome = "IndexError"

\* C10: get_pairs returns (B,C) for 0, (D,E) for 1 and (H,L) for 2 whatever the
\* registers hold and changes nothing, and in every state the value of the pair
\* get_pairs(s) selects equals get_address_from_pair of the code B, D, H.
C10_PairSelection ==
    LET expect == <<[hi |-> 0, lo |-> 1], [hi |-> 2, lo |-> 3], [hi |-> 4, lo |-> 5]>>
        high == <<0, 2, 4>>
    IN  /\ (call = "get_pairs" /\ args[1] \in 0..2) =>
            /\ outcome = "return"
            /\ val = <<expect[args[1] + 1]>>
            /\ registers = registers0
        /\ \A s \in 0..2 :
            /\ get_pairs(registers, s) = Return(registers, <<expect[s + 1]>>)
            /\ get_value_from_pair(registers, get_pairs(registers, s).val[1])
                    = get_address_from_pair(registers, high[s + 1])
            /\ get_address_from_pair(registers, high[s + 1]).outcome = "return"

\* C10 witness: get_pairs(2) returned (H,L) after H and L had been written.
C10_Witness ==
    /\ call = "get_pairs"
    /\ args = <<2>>
    /\ val = <<[hi |-> 4, lo |-> 5]>>
    /\ registers[4] = 18
    /\ registers[5] = 256

\* C8: get_register_from_opcode(opcode, bit_offset) equals
\* (opcode >> bit_offset) & 7, lies in 0..7, is the same for every opcode with the
\* same three bits at bit_offset..bit_offset+2, and changes no state.
C8_RegisterFromOpcode ==
    call = "get_register_from_opcode" =>
        LET opcode == args[1]
            off == args[2]
        IN  /\ outcome = "return"
            /\ val = <<(opcode \div 2^off) % 8>>
            /\ val[1] \in 0..7
            /\ val[1] = Bit(opcode, off) + 2 * Bit(opcode, off + 1) + 4 * Bit(opcode, off + 2)
            /\ \A o2 \in Opcode :
                (\A i \in 0..2 : Bit(o2, off + i) = Bit(opcode, off + i)) =>
                    get_register_from_opcode(o2, off) = val[1]
            /\ flags = flags0
            /\ registers = registers0

\* C8 witness: the field of 0b01111110 at offset 3 is 0b111.
C8_Witness ==
    /\ call = "get_register_from_opcode"
    /\ args = <<126, 3>>
    /\ val = <<7>>

====
